---- MODULE Spec2Model ----
(***************************************************************************)
(* Model of api/py/ai/chronon/repo/explore.py: the JSON path extractor,    *)
(* the entry and index builders, the lineage enricher, the keyword search, *)
(* the events-without-topics report and the cached authorship resolver.    *)
(*                                                                         *)
(* Python values are tagged records, so that the dynamic type tests of the *)
(* code (`in`, iteration, isinstance, subscripting) can be evaluated:      *)
(*   None -> [none |-> TRUE]      str  -> [str |-> "..."]                  *)
(*   int  -> [num |-> 1]          bool -> [bool |-> TRUE]                  *)
(*   list -> [list |-> <<...>>]   dict -> [map |-> << <<key, value>> >>]   *)
(* (a dict keeps its insertion order, as Python's does), and a raised      *)
(* exception is [err |-> "<exception type>"].                              *)
(***************************************************************************)
EXTENDS Integers, Sequences, FiniteSets, TLC

VARIABLES
    ex_path, ex_doc, ex_out, ex_pc,     \* one extract_json call
    gb_files, join_files,               \* files under production/group_bys, production/joins
    gb_index, join_index,               \* the two indexes of __main__
    pc, fault,                          \* position of __main__, exception that ended it
    argv1,                              \* sys.argv[1] once it has been read
    group_bys,                          \* what find_in_index returned
    rows, emails,                       \* rows and e-mails printed by events_without_topics
    ewt_exclude,                        \* exclude_commit_message of the report
    git_info_cache, file_to_author,     \* the module-level caches
    g_pc,                               \* position inside a git_info call
    g_file_paths, g_exclude,                \* its arguments
    g_procs, g_result, g_lines,               \* its locals
    g_i,                                \* index of the second loop
    g_caller,                             \* file of the author_name_email call that made it
    ret,                                \* what the last call returned
    calls,                              \* calls made so far
    cache0                              \* git_info_cache as the call found it

exVars == <<ex_path, ex_doc, ex_out, ex_pc>>
mainVars == <<gb_files, join_files, gb_index, join_index, pc, fault, argv1,
              group_bys, rows, emails, ewt_exclude>>
cacheVars == <<git_info_cache, file_to_author>>
frameVars == <<g_pc, g_file_paths, g_exclude, g_procs, g_result, g_lines, g_i, g_caller,
               ret, calls, cache0>>
vars == <<ex_path, ex_doc, ex_out, ex_pc, gb_files, join_files, gb_index,
          join_index, pc, fault, argv1, group_bys, rows, emails, ewt_exclude,
          git_info_cache, file_to_author, g_pc, g_file_paths, g_exclude, g_procs,
          g_result, g_lines, g_i, g_caller, ret, calls, cache0>>

-----------------------------------------------------------------------------
(* Bounds *)
MaxDepth == 2
MaxGbFiles == 1
MaxJoinFiles == 2
MaxBatch == 2
MaxCalls == 2

-----------------------------------------------------------------------------
(* Python value constructors and type tests *)
PyNone == [none |-> TRUE]
S(s) == [str |-> s]
N(n) == [num |-> n]
B(b) == [bool |-> b]
L(xs) == [list |-> xs]
M(kvs) == [map |-> kvs]
Err(e) == [err |-> e]

IsNone(v) == "none" \in DOMAIN v
IsStr(v) == "str" \in DOMAIN v
IsList(v) == "list" \in DOMAIN v
IsMap(v) == "map" \in DOMAIN v
IsErr(v) == "err" \in DOMAIN v

ToSet(seq) == {seq[i] : i \in 1..Len(seq)}

-----------------------------------------------------------------------------
(* str methods used by the code *)

\* text.find(word, start): least 1-based position >= start, 0 when absent
RECURSIVE Find(_, _, _)
Find(text, word, start) ==
    IF start + Len(word) - 1 > Len(text) THEN 0
    ELSE IF SubSeq(text, start, start + Len(word) - 1) = word THEN start
    ELSE Find(text, word, start + 1)

\* word in text
StrIn(word, text) == Find(text, word, 1) > 0

\* text.split(sep, 1)
Split1(text, sep) ==
    LET at == Find(text, sep, 1)
    IN  IF at = 0 THEN <<text>>
        ELSE <<SubSeq(text, 1, at - 1), SubSeq(text, at + Len(sep), Len(text))>>

\* text.split(sep)
RECURSIVE SplitAll(_, _)
SplitAll(text, sep) ==
    LET at == Find(text, sep, 1)
    IN  IF at = 0 THEN <<text>>
        ELSE <<SubSeq(text, 1, at - 1)>>
                 \o SplitAll(SubSeq(text, at + Len(sep), Len(text)), sep)

\* sep.join(parts)
RECURSIVE JoinStr(_, _)
JoinStr(parts, sep) ==
    IF Len(parts) = 0 THEN ""
    ELSE IF Len(parts) = 1 THEN parts[1]
    ELSE parts[1] \o sep \o JoinStr(Tail(parts), sep)

\* text.endswith(suffix)
EndsWith(text, suffix) ==
    /\ Len(text) >= Len(suffix)
    /\ SubSeq(text, Len(text) - Len(suffix) + 1, Len(text)) = suffix

\* the characters of a str, as iteration over it yields them
Chars(text) == [i \in 1..Len(text) |-> S(SubSeq(text, i, i))]

-----------------------------------------------------------------------------
(* dict / list / str protocol as the interpreter applies it *)

RECURSIVE MapIndex(_, _, _)
MapIndex(kvs, key, i) ==
    IF i > Len(kvs) THEN 0
    ELSE IF kvs[i][1] = key THEN i
    ELSE MapIndex(kvs, key, i + 1)

MapKeys(kvs) == [i \in 1..Len(kvs) |-> S(kvs[i][1])]

\* `key in container`: TRUE / FALSE, or an exception for a non-container
Contains(key, v) ==
    IF IsMap(v) THEN B(MapIndex(v.map, key, 1) > 0)
    ELSE IF IsList(v) THEN B(S(key) \in ToSet(v.list))
    ELSE IF IsStr(v) THEN B(StrIn(key, v.str))
    ELSE Err("TypeError")

\* container[key] with a str key
GetItem(v, key) ==
    IF IsMap(v) THEN v.map[MapIndex(v.map, key, 1)][2]
    ELSE Err("TypeError")

\* the items iteration over v yields, or an exception
Iter(v) ==
    IF IsList(v) THEN v
    ELSE IF IsMap(v) THEN L(MapKeys(v.map))
    ELSE IF IsStr(v) THEN L(Chars(v.str))
    ELSE Err("TypeError")

-----------------------------------------------------------------------------
(* extract_json *)

RECURSIVE extract_json(_, _)
RECURSIVE ExtendAll(_, _, _, _)

\* the loop `for value in conf_json[key]: result.extend(extract_json(next, value))`
ExtendAll(next, values, i, result) ==
    IF i > Len(values) THEN L(result)
    ELSE LET sub == extract_json(next, values[i])
             items == IF IsErr(sub) THEN sub ELSE Iter(sub)
         IN  IF IsErr(items) THEN items
             ELSE ExtendAll(next, values, i + 1, result \o items.list)

extract_json(json_path, conf_json) ==
    IF IsNone(json_path) THEN conf_json
    ELSE
      LET steps == Split1(json_path.str, ".")
          key0 == steps[1]
          next == IF Len(steps) > 1 THEN S(steps[2]) ELSE PyNone
      IN  IF EndsWith(key0, "[]")
          THEN LET key == SubSeq(key0, 1, Len(key0) - 2)
                   has == Contains(key, conf_json)
               IN  IF IsErr(has) THEN has
                   ELSE IF has.bool
                   THEN LET node == GetItem(conf_json, key)
                            values == IF IsErr(node) THEN node ELSE Iter(node)
                        IN  IF IsErr(values) THEN values
                            ELSE ExtendAll(next, values.list, 1, <<>>)
                   ELSE L(<<>>)
          ELSE LET has == Contains(key0, conf_json)
               IN  IF IsErr(has) THEN has
                   ELSE IF has.bool
                   THEN LET node == GetItem(conf_json, key0)
                            final == IF IsErr(node) THEN node
                                     ELSE extract_json(next, node)
                        IN  IF IsErr(final) THEN final
                            ELSE IF IsList(final) THEN final
                            ELSE L(<<final>>)
                   ELSE L(<<>>)

-----------------------------------------------------------------------------
(* Bounded JSON-like documents and path expressions for the extractor *)

Scalars == {S("x"), N(1), B(TRUE), PyNone}
DocKeys == {"a", "b"}

RECURSIVE JsonUpTo(_)
JsonUpTo(d) ==
    IF d = 0 THEN Scalars
    ELSE LET sub == JsonUpTo(d - 1)
         IN  Scalars
             \cup {L(<<>>)} \cup {L(<<v>>) : v \in sub}
             \cup {M(<<>>)} \cup {M(<< <<k, v>> >>) : k \in DocKeys, v \in sub}

\* a config document is an object; its values are any JSON
ExtractDocs == {d \in JsonUpTo(MaxDepth) : IsMap(d)}
ExtractPaths == {PyNone, S("a"), S("b"), S("a.b"), S("a[]"), S("a[].b"), S("a.b[]")}

-----------------------------------------------------------------------------
(* Module constants *)

GB_INDEX_SPEC ==
    << <<"sources", <<"sources[].events.table",
                      "sources[].entities.snapshotTable",
                      "sources[].entities.mutationTable",
                      "sources[].entities.topic",
                      "sources[].events.topic">> >>,
       <<"_event_tables", <<"sources[].events.table">> >>,
       <<"_event_topics", <<"sources[].events.topic">> >>,
       <<"aggregation", <<"aggregations[].inputColumn">> >>,
       <<"keys", <<"keyColumns">> >>,
       <<"name", <<"metaData.name">> >>,
       <<"online", <<"metaData.online">> >> >>

JOIN_INDEX_SPEC ==
    << <<"input_table", <<"left.entities.snapshotTable", "left.events.table">> >>,
       <<"_events_driver", <<"left.events.table">> >>,
       <<"group_bys", <<"joinParts[].groupBy.metaData.name",
                        "rightParts[].groupBy.name">> >>,
       <<"name", <<"metaData.name">> >>,
       <<"_group_bys", <<"joinParts[].groupBy", "rightParts[].groupBy">> >> >>

FILTER_COLUMNS == {"aggregation", "keys", "name", "sources", "joins"}

BLUE == "<blue>"

-----------------------------------------------------------------------------
(* Insertion-ordered dict with str keys, as a sequence of <<key, value>> *)

DictHas(d, key) == MapIndex(d, key, 1) > 0
DictGet(d, key) == d[MapIndex(d, key, 1)][2]
\* d[key] = value: an existing key keeps its position
DictPut(d, key, value) ==
    IF DictHas(d, key)
    THEN [d EXCEPT ![MapIndex(d, key, 1)] = <<key, value>>]
    ELSE Append(d, <<key, value>>)

-----------------------------------------------------------------------------
(* os.path *)

RECURSIVE PathJoinFrom(_, _, _)
PathJoinFrom(acc, parts, i) ==
    IF i > Len(parts) THEN acc
    ELSE LET part == parts[i]
         IN  PathJoinFrom(
                 IF Len(part) > 0 /\ SubSeq(part, 1, 1) = "/" THEN part
                 ELSE IF acc = "" \/ EndsWith(acc, "/") THEN acc \o part
                 ELSE acc \o "/" \o part,
                 parts, i + 1)

\* os.path.join(parts[1], ..., parts[n])
PathJoin(parts) == PathJoinFrom(parts[1], parts, 2)

-----------------------------------------------------------------------------
(* The working tree the script runs in: which paths exist, and the commits *)
(* that touch each path, most recent first.                                *)

ExistingFiles ==
    { "production/group_bys/t/a.v1", "production/group_bys/t/b.v1",
      "group_bys/t/c.py", "production/joins/t/j.v1", "production/joins/t/r.v1" }

Commit(date, an, ae, subject) == [as |-> date, an |-> an, ae |-> ae, msg |-> subject]

GitHistory(file_path) ==
    CASE file_path = "production/group_bys/t/a.v1" ->
             << Commit("2024-03-02", "ann", "ann@x", "add price"),
                Commit("2024-01-05", "bob", "bob@x", "bump version") >>
      [] file_path = "production/group_bys/t/b.v1" ->
             << Commit("2024-02-01", "bob", "bob@x", "add item") >>
      [] file_path = "group_bys/t/c.py" ->
             << Commit("2024-02-07", "cat", "cat@x", "bump version") >>
      [] file_path = "production/joins/t/j.v1" ->
             << Commit("2024-04-01", "dan", "dan@x", "bump version"),
                Commit("2024-03-09", "ann", "ann@x", "add join") >>
      [] OTHER -> << >>

os_path_exists(path) == path \in ExistingFiles

-----------------------------------------------------------------------------
(* build_entry *)

\* the loop `for path in paths: result.extend(extract_json(path, conf_dict))`
RECURSIVE ExtractColumn(_, _, _, _)
ExtractColumn(paths, conf_dict, i, result) ==
    IF i > Len(paths) THEN L(result)
    ELSE LET sub == extract_json(S(paths[i]), conf_dict)
         IN  IF IsErr(sub) THEN sub
             ELSE ExtractColumn(paths, conf_dict, i + 1, result \o sub.list)

\* the entry columns of the per-column results, or the first exception among them
ColumnsOf(index_spec, cols) ==
    IF \E i \in 1..Len(cols) : IsErr(cols[i])
    THEN cols[CHOOSE i \in 1..Len(cols) :
                 IsErr(cols[i]) /\ \A j \in 1..(i - 1) : ~IsErr(cols[j])]
    ELSE [c \in {index_spec[i][1] : i \in 1..Len(index_spec)} |->
             cols[CHOOSE i \in 1..Len(index_spec) : index_spec[i][1] = c].list]

\* lines 106-110
ExtractColumns(index_spec, conf_dict) ==
    ColumnsOf(index_spec,
              [i \in 1..Len(index_spec) |->
                  ExtractColumn(index_spec[i][2], conf_dict, 1, <<>>)])

\* "/".join(conf_module.split(".")[:-1])
FileBase(conf_module) ==
    JoinStr(SubSeq(SplitAll(conf_module, "."), 1, Len(SplitAll(conf_module, ".")) - 1), "/")

\* lines 117-124: derive python file path from the name & conf_type
DerivedPaths(conf_type, team, conf_module) ==
    [c \in {"file", "json_file"} |->
        IF c = "json_file"
        THEN S(PathJoin(<<"production", conf_type, team, conf_module>>))
        ELSE IF os_path_exists(PathJoin(<<conf_type, team, FileBase(conf_module) \o ".py">>))
        THEN S(PathJoin(<<conf_type, team, FileBase(conf_module) \o ".py">>))
        ELSE S(PathJoin(<<conf_type, team, FileBase(conf_module) \o "/__init__.py">>))]

\* line 116: (team, conf_module) = entry["name"][0].split(".", 1)
NamedEntry(columns, parts, conf_type) ==
    IF Len(parts) # 2 THEN Err("ValueError")
    ELSE DerivedPaths(conf_type, parts[1], parts[2]) @@ columns

\* lines 112-125
EntryOf(columns, conf_type) ==
    IF IsErr(columns) THEN columns
    ELSE IF Len(columns["name"]) = 0 THEN PyNone
    ELSE IF ~IsStr(columns["name"][1]) THEN Err("AttributeError")
    ELSE NamedEntry(columns, Split1(columns["name"][1].str, "."), conf_type)

\* conf is a file of the tree ([text |-> ...], standing for its path), a str
\* that names no file, or a parsed document.  The text of a file is
\* [json |-> document] or, when json.load fails on it, [garbage |-> TRUE].
\* The result is an entry, None or an exception.
build_entry(conf, index_spec, conf_type) ==
    IF IsStr(conf) THEN Err("FileNotFoundError")
    ELSE IF "text" \in DOMAIN conf
    THEN IF "garbage" \in DOMAIN conf.text THEN PyNone
         ELSE EntryOf(ExtractColumns(index_spec, conf.text.json), conf_type)
    ELSE EntryOf(ExtractColumns(index_spec, conf), conf_type)

-----------------------------------------------------------------------------
(* build_index *)

\* lines 164-165
Indexed(index_table, index_entry) ==
    IF IsErr(index_entry) THEN index_entry
    ELSE IF IsNone(index_entry) THEN M(index_table)
    ELSE M(DictPut(index_table, index_entry["name"][1].str, index_entry))

RECURSIVE BuildIndexFrom(_, _, _, _, _)
BuildIndexFrom(files, index_spec, conf_type, i, index_table) ==
    IF IsErr(index_table) \/ i > Len(files) THEN index_table
    ELSE BuildIndexFrom(files, index_spec, conf_type, i + 1,
             Indexed(index_table.map, build_entry(files[i], index_spec, conf_type)))

\* files: what walk_files yields under production/<conf_type>, in walk order
build_index(files, conf_type, index_spec) ==
    BuildIndexFrom(files, index_spec, conf_type, 1, M(<<>>))

-----------------------------------------------------------------------------
(* find_in_index *)

\* [target in value for value in values], or the exception of a test
ValueTests(values, target) == [i \in 1..Len(values) |-> Contains(target, values[i])]

valid_entry(entry, target) ==
    LET tests == UNION {ToSet(ValueTests(entry[column], target)) :
                           column \in DOMAIN entry \cap FILTER_COLUMNS}
    IN  IF \E t \in tests : IsErr(t) THEN Err("TypeError")
        ELSE B(\E t \in tests : t.bool)

RECURSIVE FilterFrom(_, _, _, _)
FilterFrom(index_table, target, i, acc) ==
    IF i > Len(index_table) THEN L(acc)
    ELSE LET keep == valid_entry(index_table[i][2], target)
         IN  IF IsErr(keep) THEN keep
             ELSE FilterFrom(index_table, target, i + 1,
                      IF keep.bool THEN Append(acc, index_table[i][2]) ELSE acc)

\* find_in_index_pred(index_table, valid_entry) with the closure over target
find_in_index_pred(index_table, target) == FilterFrom(index_table.map, target, 1, <<>>)

\* the value the call evaluates to: the list is computed and dropped
find_in_index(index_table, target) ==
    LET found == find_in_index_pred(index_table, target)
    IN  IF IsErr(found) THEN found ELSE PyNone

-----------------------------------------------------------------------------
(* enrich_with_joins *)

RECURSIVE ConcatColumn(_, _, _)
\* the values of one column over the join entries, in join-processing order
ConcatColumn(joins, column, i) ==
    IF i > Len(joins) THEN <<>>
    ELSE joins[i][2][column] \o ConcatColumn(joins, column, i + 1)

\* an embedded group-by does not replace an entry already under its name
NestedEntryKeepIndexed(index, entry) ==
    IF IsErr(entry) THEN entry
    ELSE IF IsNone(entry) THEN Err("TypeError")
    ELSE IF DictHas(index, entry["name"][1].str) THEN M(index)
    ELSE M(DictPut(index, entry["name"][1].str, entry))

\* line 237: gb_index[entry["name"][0]] = entry
NestedEntry(index, entry) ==
    IF IsErr(entry) THEN entry
    ELSE IF IsNone(entry) THEN Err("TypeError")
    ELSE M(DictPut(index, entry["name"][1].str, entry))

\* nested gb entries
RECURSIVE NestedEntries(_, _, _)
NestedEntries(gbs, i, index) ==
    IF IsErr(index) \/ i > Len(gbs) THEN index
    ELSE NestedEntries(gbs, i + 1,
             NestedEntry(index.map, build_entry(gbs[i], GB_INDEX_SPEC, "group_bys")))

ResetLineage(index) ==
    [i \in 1..Len(index) |->
        <<index[i][1],
          [c \in DOMAIN index[i][2] \cup {"joins", "join_event_driver"} |->
              IF c \in {"joins", "join_event_driver"} THEN <<>> ELSE index[i][2][c]]>>]

\* `gb_name in gb_index` for a value of a group_bys column
NameInIndex(gb_name, index) ==
    IF IsList(gb_name) \/ IsMap(gb_name) THEN Err("TypeError")
    ELSE B(IsStr(gb_name) /\ DictHas(index, gb_name.str))

\* the join is put in front of the lineage instead of at its end
AppendLineageInFront(entry, join) ==
    [entry EXCEPT !["joins"] = <<join["name"][1]>> \o @,
                  !["join_event_driver"] =
                      IF Len(join["_events_driver"]) > 0
                      THEN <<join["_events_driver"][1]>> \o @ ELSE @]

AppendLineage(entry, join) ==
    [entry EXCEPT !["joins"] = Append(@, join["name"][1]),
                  !["join_event_driver"] =
                      IF Len(join["_events_driver"]) > 0
                      THEN Append(@, join["_events_driver"][1]) ELSE @]

\* lineage -> reverse index from gb -> join
RECURSIVE Lineage(_, _, _, _)
Lineage(joins, j, k, index) ==
    IF j > Len(joins) THEN M(index)
    ELSE IF k > Len(joins[j][2]["group_bys"]) THEN Lineage(joins, j + 1, 1, index)
    ELSE LET join == joins[j][2]
             gb_name == join["group_bys"][k]
             has == NameInIndex(gb_name, index)
         IN  IF IsErr(has) THEN has
             ELSE IF has.bool
             THEN Lineage(joins, j, k + 1,
                      DictPut(index, gb_name.str,
                              AppendLineage(DictGet(index, gb_name.str), join)))
             ELSE Lineage(joins, j, k + 1, index)

\* lines 239-247 on the index the first loop left
LineageOf(ji, nested) ==
    IF IsErr(nested) THEN nested
    ELSE Lineage(ji.map, 1, 1, ResetLineage(nested.map))

\* the gb_index the call leaves, or the exception it raises
enrich_with_joins(gbi, ji) ==
    LineageOf(ji, NestedEntries(ConcatColumn(ji.map, "_group_bys", 1), 1, gbi))

-----------------------------------------------------------------------------
(* git_info: the command, the subprocess, and the two loops *)

\* --invert-grep --grep=<exclude> drops the commits whose message matches
Excluded(commit, exclude) ==
    /\ IsStr(exclude)
    /\ exclude.str # ""
    /\ StrIn(exclude.str, commit.msg)

\* git log -n 2 --pretty='format:<BLUE> %as/%an/%ae' <exclude_args> -- <file_path>
GitLog(file_path, exclude) ==
    LET kept == SelectSeq(GitHistory(file_path), LAMBDA c : ~Excluded(c, exclude))
        shown == SubSeq(kept, 1, IF Len(kept) < 2 THEN Len(kept) ELSE 2)
    IN  [i \in 1..Len(shown) |->
            BLUE \o " " \o shown[i].as \o "/" \o shown[i].an \o "/" \o shown[i].ae]

RECURSIVE Words(_, _)
\* the fields the shell splits the substituted output into
Words(out, i) ==
    IF i > Len(out) THEN <<>>
    ELSE SelectSeq(SplitAll(out[i], " "), LAMBDA w : w # "") \o Words(out, i + 1)

\* echo $(...): the fields on one line; a bare newline when there are none
ShellEcho(out) == << JoinStr(Words(out, 1), " ") >>

\* the lines the subprocess of line 140 writes to its stdout
PopenStdout(file_path, exclude) == ShellEcho(GitLog(file_path, exclude))

\* a lookup is started whether or not the path is cached
DispatchUncached(file_path, exclude, cache) ==
    <<file_path, [popen |-> PopenStdout(file_path, exclude)]>>

\* one iteration of the first loop: the pair appended to procs
Dispatch(file_path, exclude, cache) ==
    IF DictHas(cache, file_path)
    THEN <<file_path, S(DictGet(cache, file_path))>>
    ELSE <<file_path, [popen |-> PopenStdout(file_path, exclude)]>>

IsPopen(proc) == "popen" \in DOMAIN proc

\* one iteration of the second loop: the cache and result it leaves
Collect(pair, cache, result) ==
    LET file_path == pair[1]
        proc == pair[2]
    IN  IF IsPopen(proc)
        THEN LET lines == proc.popen
             IN  IF Len(lines) = 0 THEN Err("IndexError")
                 ELSE [cache |-> DictPut(cache, file_path, lines[1]),
                       result |-> DictPut(result, file_path, lines[1])]
        ELSE [cache |-> cache,
              result |-> DictPut(result, file_path, DictGet(cache, file_path))]

RECURSIVE Scatter(_, _, _, _)
Scatter(file_paths, exclude, cache, i) ==
    IF i > Len(file_paths) THEN <<>>
    ELSE <<Dispatch(file_paths[i], exclude, cache)>>
             \o Scatter(file_paths, exclude, cache, i + 1)

RECURSIVE Gather(_, _, _, _)
Gather(procs, i, cache, result) ==
    IF i > Len(procs) THEN [cache |-> cache, result |-> result]
    ELSE LET step == Collect(procs[i], cache, result)
         IN  IF IsErr(step) THEN step
             ELSE Gather(procs, i + 1, step.cache, step.result)

\* a whole call: [cache, result], or the exception
git_info(file_paths, exclude, cache) ==
    Gather(Scatter(file_paths, exclude, cache, 1), 1, cache, <<>>)

-----------------------------------------------------------------------------
(* author_name_email, conf_file *)

\* auth_str.split("/")[-2:]
LastTwo(auth_str) ==
    LET parts == SplitAll(auth_str, "/")
    IN  IF Len(parts) <= 2 THEN parts ELSE SubSeq(parts, Len(parts) - 1, Len(parts))

RECURSIVE RecordAuthors(_, _, _)
RecordAuthors(result, i, authors) ==
    IF i > Len(result) THEN authors
    ELSE RecordAuthors(result, i + 1,
             DictPut(authors, result[i][1], LastTwo(result[i][2])))

\* lines 261-263 on what git_info returned
Recorded(file, info, authors) ==
    IF IsErr(info) THEN info
    ELSE [ret |-> DictGet(RecordAuthors(info.result, 1, authors), file),
          cache |-> info.cache,
          authors |-> RecordAuthors(info.result, 1, authors)]

\* [ret, cache, authors], or the exception
author_name_email(file, exclude, cache, authors) ==
    IF ~os_path_exists(file)
    THEN [ret |-> <<"", "">>, cache |-> cache, authors |-> authors]
    ELSE IF ~DictHas(authors, file)
    THEN Recorded(file, git_info(<<file>>, exclude, cache), authors)
    ELSE [ret |-> DictGet(authors, file), cache |-> cache, authors |-> authors]

conf_file(conf_type, conf_name) ==
    PathJoin(<<"production", conf_type>> \o Split1(conf_name, "."))

-----------------------------------------------------------------------------
(* events_without_topics *)

RowFound(entry) ==
    Len(entry["_event_topics"]) = 0 /\ Len(entry["_event_tables"]) > 0

StrValues(values) == [i \in 1..Len(values) |-> values[i].str]

\* lines 289-292: consumer_name, consumer_email = author_name_email(...)
AddConsumer(st, call) ==
    IF IsErr(call) THEN call
    ELSE IF Len(call.ret) # 2 THEN Err("ValueError")
    ELSE [consumers |-> st.consumers \cup {call.ret[1]},
          emails |-> st.emails \cup {call.ret[2]},
          cache |-> call.cache, authors |-> call.authors]

RECURSIVE Consumers(_, _, _, _)
\* the loop over entry["joins"]: [consumers, emails, cache, authors], or the
\* exception
Consumers(joins, i, exclude, st) ==
    IF IsErr(st) \/ i > Len(joins) THEN st
    ELSE Consumers(joins, i + 1, exclude,
             AddConsumer(st, author_name_email(conf_file("joins", joins[i].str),
                                               exclude, st.cache, st.authors)))

\* lines 281-284
EventFile(entry) ==
    IF os_path_exists(entry["json_file"].str)
    THEN entry["json_file"].str ELSE entry["file"].str

\* lines 293-304: the row found.append adds.
\* The last column of a row is the set whose members the code joins with ", "
\* in the iteration order of a Python set.
RowOf(entry, found, producer_name, cons) ==
    IF IsErr(cons) THEN cons
    ELSE [rows |-> Append(found,
                     [name |-> entry["name"][1].str,
                      producer |-> producer_name,
                      online |-> Len(entry["online"]) > 0,
                      table |-> entry["_event_tables"][1],
                      joins |-> IF Len(entry["joins"]) > 0
                                THEN JoinStr(StrValues(entry["joins"]), ", ")
                                ELSE "STANDALONE",
                      consumers |-> cons.consumers]),
          emails |-> cons.emails,
          cache |-> cons.cache, authors |-> cons.authors]

\* lines 285-304: producer_name, producer_email = author_name_email(...)
WithProducer(entry, exclude, st, producer) ==
    IF IsErr(producer) THEN producer
    ELSE IF Len(producer.ret) # 2 THEN Err("ValueError")
    ELSE RowOf(entry, st.rows, producer.ret[1],
               Consumers(entry["joins"], 1, exclude,
                   [consumers |-> {},
                    emails |-> st.emails \cup {producer.ret[2]},
                    cache |-> producer.cache,
                    authors |-> producer.authors]))

\* is_events_without_topics(entry): [rows, emails, cache, authors], or the
\* exception.
is_events_without_topics(entry, exclude, st) ==
    IF ~RowFound(entry) THEN st
    ELSE WithProducer(entry, exclude, st,
             author_name_email(EventFile(entry), exclude, st.cache, st.authors))

RECURSIVE ReportFrom(_, _, _, _)
ReportFrom(index, i, exclude, st) ==
    IF IsErr(st) \/ i > Len(index) THEN st
    ELSE ReportFrom(index, i + 1, exclude,
             is_events_without_topics(index[i][2], exclude, st))

\* [rows, emails, cache, authors] as the handler leaves them, or the exception
events_without_topics(index, exclude, cache, authors) ==
    ReportFrom(index.map, 1, exclude,
               [rows |-> <<>>, emails |-> {}, cache |-> cache, authors |-> authors])

-----------------------------------------------------------------------------
(* Config documents the tree may hold *)

Meta(name) == <<"metaData", M(<< <<"name", S(name)>> >>)>>
Events(table) == M(<< <<"events", M(<< <<"table", S(table)>> >>)>> >>)
EventsTopic(table, topic) ==
    M(<< <<"events", M(<< <<"table", S(table)>>, <<"topic", S(topic)>> >>)>> >>)
Part(gb) == M(<< <<"groupBy", gb>> >>)

\* t.a.v1: an event table, no topic, online
GbA == M(<< <<"metaData", M(<< <<"name", S("t.a.v1")>>, <<"online", B(TRUE)>> >>)>>,
            <<"sources", L(<< Events("db.ev") >>)>>,
            <<"keyColumns", L(<< S("user") >>)>>,
            <<"aggregations", L(<< M(<< <<"inputColumn", S("price")>> >>) >>)>> >>)
\* t.a.v1 again, as a join embeds it: the same name, with a topic
GbA2 == M(<< Meta("t.a.v1"),
             <<"sources", L(<< EventsTopic("db.ev", "tp.ev") >>)>>,
             <<"keyColumns", L(<< S("user") >>)>> >>)
\* t.b.v1: an event table with its topic
GbB == M(<< Meta("t.b.v1"),
            <<"sources", L(<< EventsTopic("db.item", "tp.item") >>)>>,
            <<"keyColumns", L(<< S("item") >>)>> >>)
\* t.c.v1: an event table, no topic
GbC == M(<< Meta("t.c.v1"),
            <<"sources", L(<< Events("db.clk") >>)>>,
            <<"keyColumns", L(<< S("user") >>)>> >>)
\* t.e.v1 embedded under rightParts, whose reference is read from its "name"
GbE == M(<< <<"name", S("t.b.v1")>>, Meta("t.e.v1"),
            <<"sources", L(<< Events("db.e") >>)>> >>)
\* no metaData.name
GbNoName == M(<< <<"sources", L(<< Events("db.anon") >>)>> >>)

JoinJ == M(<< Meta("t.j.v1"),
              <<"left", Events("db.raw")>>,
              <<"joinParts", L(<< Part(GbA) >>)>> >>)
JoinK == M(<< Meta("t.k.v1"),
              <<"left", M(<< <<"entities", M(<< <<"snapshotTable", S("db.snap")>> >>)>> >>)>>,
              <<"joinParts", L(<< Part(GbA2), Part(GbC) >>)>> >>)
JoinR == M(<< Meta("t.r.v1"),
              <<"left", Events("db.raw")>>,
              <<"rightParts", L(<< Part(GbE) >>)>> >>)
JoinU == M(<< Meta("t.u.v1"),
              <<"left", Events("db.raw")>>,
              <<"joinParts", L(<< Part(GbNoName) >>)>> >>)

Json(doc) == [text |-> [json |-> doc]]
Garbage == [text |-> [garbage |-> TRUE]]

GbFiles == {Json(GbA), Json(GbB), Json(GbC), Json(GbNoName), Garbage}
JoinFiles == {Json(JoinJ), Json(JoinK), Json(JoinR), Json(JoinU)}

SeqsUpTo(set, n) == UNION {[1..k -> set] : k \in 0..n}
\* walk orders of up to n files, each file of the set met at most once
WalksUpTo(set, n) ==
    {w \in SeqsUpTo(set, n) : \A i, j \in 1..Len(w) : w[i] = w[j] => i = j}

Targets == {"price", "user", "t.a"}
Excludes == {PyNone, S("bump")}

-----------------------------------------------------------------------------
(* __main__ *)

NoFault == [at |-> "", err |-> ""]
Raised(at, e) == [at |-> at, err |-> e.err]

ExtractIdle ==
    /\ ex_path = PyNone /\ ex_doc = PyNone /\ ex_out = PyNone /\ ex_pc = "idle"

NoReturn == [of |-> "", value |-> <<>>]

FrameIdle ==
    /\ g_pc = "idle" /\ g_file_paths = <<>> /\ g_exclude = PyNone /\ g_procs = <<>>
    /\ g_result = <<>> /\ g_lines = <<>> /\ g_i = 1 /\ g_caller = PyNone
    /\ ret = NoReturn /\ calls = 0 /\ cache0 = <<>>

MainIdle ==
    /\ gb_files = <<>> /\ join_files = <<>>
    /\ gb_index = L(<<>>) /\ join_index = L(<<>>)
    /\ pc = "idle" /\ argv1 = PyNone /\ group_bys = L(<<>>)
    /\ rows = <<>> /\ emails = {} /\ ewt_exclude = PyNone

Init ==
    /\ gb_files \in WalksUpTo(GbFiles, MaxGbFiles)
    /\ join_files \in WalksUpTo(JoinFiles, MaxJoinFiles)
    /\ gb_index = L(<<>>)
    /\ join_index = L(<<>>)
    /\ pc = "start"
    /\ fault = NoFault
    /\ argv1 = PyNone
    /\ group_bys = L(<<>>)
    /\ rows = <<>>
    /\ emails = {}
    /\ ewt_exclude = PyNone
    /\ git_info_cache = <<>>
    /\ file_to_author = <<>>
    /\ ExtractIdle
    /\ FrameIdle

\* gb_index = build_index("group_bys", GB_INDEX_SPEC)
BuildGbIndex ==
    /\ pc = "start"
    /\ \E built \in {build_index(gb_files, "group_bys", GB_INDEX_SPEC)} :
           IF IsErr(built)
           THEN /\ pc' = "crashed" /\ fault' = Raised("build_index", built)
                /\ UNCHANGED gb_index
           ELSE /\ pc' = "gb_built" /\ gb_index' = built
                /\ UNCHANGED fault
    /\ UNCHANGED <<gb_files, join_files, join_index, argv1, group_bys, rows, emails, ewt_exclude>>
    /\ UNCHANGED <<cacheVars, exVars, frameVars>>

\* join_index = build_index("joins", JOIN_INDEX_SPEC)
BuildJoinIndex ==
    /\ pc = "gb_built"
    /\ \E built \in {build_index(join_files, "joins", JOIN_INDEX_SPEC)} :
           IF IsErr(built)
           THEN /\ pc' = "crashed" /\ fault' = Raised("build_index", built)
                /\ UNCHANGED join_index
           ELSE /\ pc' = "built" /\ join_index' = built
                /\ UNCHANGED fault
    /\ UNCHANGED <<gb_files, join_files, gb_index, argv1, group_bys, rows, emails, ewt_exclude>>
    /\ UNCHANGED <<cacheVars, exVars, frameVars>>

\* enrich_with_joins(gb_index, join_index); an exception ends the process
EnrichWithJoins ==
    /\ pc = "built"
    /\ \E enriched \in {enrich_with_joins(gb_index, join_index)} :
           IF IsErr(enriched)
           THEN /\ pc' = "crashed" /\ fault' = Raised("enrich_with_joins", enriched)
                /\ UNCHANGED gb_index
           ELSE /\ pc' = "enriched" /\ gb_index' = enriched
                /\ UNCHANGED fault
    /\ UNCHANGED <<gb_files, join_files, join_index, argv1, group_bys, rows, emails, ewt_exclude>>
    /\ UNCHANGED <<cacheVars, exVars, frameVars>>

\* candidate in handlers: handler(**args)
EventsWithoutTopics ==
    /\ pc = "enriched"
    /\ \E exclude_commit_message \in Excludes :
         \E done \in {events_without_topics(gb_index, exclude_commit_message,
                                             git_info_cache, file_to_author)} :
             /\ ewt_exclude' = exclude_commit_message
             /\ IF IsErr(done)
                THEN /\ pc' = "crashed" /\ fault' = Raised("events_without_topics", done)
                     /\ UNCHANGED <<rows, emails, cacheVars>>
                ELSE /\ pc' = "reported" /\ rows' = done.rows
                     /\ emails' = done.emails
                     /\ git_info_cache' = done.cache
                     /\ file_to_author' = done.authors
                     /\ UNCHANGED fault
    /\ argv1' = S("_events_without_topics")
    /\ UNCHANGED <<gb_files, join_files, gb_index, join_index, group_bys>>
    /\ UNCHANGED <<exVars, frameVars>>

\* group_bys = find_in_index(gb_index, sys.argv[1])
FindInIndex ==
    /\ pc = "enriched"
    /\ \E target \in Targets :
         \E found \in {find_in_index(gb_index, target)} :
             /\ argv1' = S(target)
             /\ IF IsErr(found)
                THEN /\ pc' = "crashed" /\ fault' = Raised("find_in_index", found)
                     /\ UNCHANGED group_bys
                ELSE /\ pc' = "found" /\ group_bys' = found
                     /\ UNCHANGED fault
    /\ UNCHANGED <<gb_files, join_files, gb_index, join_index, rows, emails, ewt_exclude>>
    /\ UNCHANGED <<cacheVars, exVars, frameVars>>

\* display_entries(group_bys, sys.argv[1]): its first statement iterates entries
DisplayEntries ==
    /\ pc = "found"
    /\ LET entries == Iter(group_bys)
       IN  IF IsErr(entries)
           THEN /\ pc' = "crashed" /\ fault' = Raised("display_entries", entries)
           ELSE /\ pc' = "displayed" /\ UNCHANGED fault
    /\ UNCHANGED <<gb_files, join_files, gb_index, join_index, argv1, group_bys,
                   rows, emails, ewt_exclude>>
    /\ UNCHANGED <<cacheVars, exVars, frameVars>>

Next ==
    \/ BuildGbIndex
    \/ BuildJoinIndex
    \/ EnrichWithJoins
    \/ EventsWithoutTopics
    \/ FindInIndex
    \/ DisplayEntries

Spec == Init /\ [][Next]_vars

-----------------------------------------------------------------------------
(* One extract_json call on a bounded document *)

InitExtract ==
    /\ ex_path \in ExtractPaths
    /\ ex_doc \in ExtractDocs
    /\ ex_out = PyNone
    /\ ex_pc = "call"
    /\ MainIdle /\ FrameIdle
    /\ fault = NoFault
    /\ git_info_cache = <<>>
    /\ file_to_author = <<>>

Extract ==
    /\ ex_pc = "call"
    /\ ex_out' = extract_json(ex_path, ex_doc)
    /\ ex_pc' = "returned"
    /\ UNCHANGED <<ex_path, ex_doc, mainVars, cacheVars, frameVars>>

NextExtract == Extract

SpecExtract == InitExtract /\ [][NextExtract]_vars

-----------------------------------------------------------------------------
(* git_info and author_name_email, statement by statement, over a sequence *)
(* of calls in one process                                                 *)

GitPaths == { "production/group_bys/t/a.v1", "production/joins/t/j.v1",
              "production/joins/t/r.v1" }
AuthorFiles == GitPaths \cup {"production/joins/t/k.v1"}

InitGit ==
    /\ MainIdle /\ FrameIdle /\ ExtractIdle
    /\ fault = NoFault
    /\ git_info_cache = <<>>
    /\ file_to_author = <<>>

\* the second loop starts once a lookup is running
ScatterDoneAtFirst(done, paths) == Len(done) >= 1 \/ Len(paths) = 0

\* the first loop has run over all of file_paths
ScatterDone(done, paths) == Len(done) = Len(paths)

\* entry into git_info(paths, ex)
Enter(paths, ex, by) ==
    /\ g_pc' = "scatter"
    /\ g_file_paths' = paths /\ g_exclude' = ex /\ g_caller' = by
    /\ g_procs' = <<>> /\ g_result' = <<>> /\ g_lines' = <<>> /\ g_i' = 1
    /\ cache0' = git_info_cache
    /\ calls' = calls + 1

CallGitInfo ==
    /\ g_pc = "idle" /\ fault = NoFault /\ calls < MaxCalls
    /\ \E paths \in SeqsUpTo(GitPaths, MaxBatch), ex \in Excludes :
         Enter(paths, ex, PyNone)
    /\ UNCHANGED <<ret, cacheVars, mainVars, exVars>>

\* author_name_email(file, ex) up to its return or its call of git_info
CallAuthorNameEmail ==
    /\ g_pc = "idle" /\ fault = NoFault /\ calls < MaxCalls
    /\ \E file \in AuthorFiles, ex \in Excludes :
         IF ~os_path_exists(file)
         THEN /\ ret' = [of |-> "author_name_email", value |-> <<"", "">>]
              /\ calls' = calls + 1
              /\ UNCHANGED <<g_pc, g_file_paths, g_exclude, g_procs, g_result, g_lines,
                             g_i, g_caller, cache0>>
         ELSE IF DictHas(file_to_author, file)
         THEN /\ ret' = [of |-> "author_name_email",
                         value |-> DictGet(file_to_author, file)]
              /\ calls' = calls + 1
              /\ UNCHANGED <<g_pc, g_file_paths, g_exclude, g_procs, g_result, g_lines,
                             g_i, g_caller, cache0>>
         ELSE /\ Enter(<<file>>, ex, S(file))
              /\ UNCHANGED ret
    /\ UNCHANGED <<cacheVars, mainVars, exVars>>

\* g_lines 135-140: one iteration of the first loop
DispatchStep ==
    /\ g_pc = "scatter"
    /\ Len(g_procs) < Len(g_file_paths)
    /\ g_procs' = Append(g_procs, Dispatch(g_file_paths[Len(g_procs) + 1], g_exclude, git_info_cache))
    /\ UNCHANGED <<g_pc, g_file_paths, g_exclude, g_result, g_lines, g_i, g_caller, ret,
                   calls, cache0, cacheVars, mainVars, exVars>>

\* line 142: g_result = {}
StartGather ==
    /\ g_pc = "scatter"
    /\ ScatterDone(g_procs, g_file_paths)
    /\ g_pc' = "gather" /\ g_result' = <<>> /\ g_i' = 1
    /\ UNCHANGED <<g_file_paths, g_exclude, g_procs, g_lines, g_caller, ret, calls, cache0,
                   cacheVars, mainVars, exVars>>

\* g_lines 145-147: the output of one lookup is read to its end
ReadLines ==
    /\ g_pc = "gather"
    /\ g_i <= Len(g_procs)
    /\ IsPopen(g_procs[g_i][2])
    /\ g_lines' = g_procs[g_i][2].popen
    /\ g_pc' = "store"
    /\ UNCHANGED <<g_file_paths, g_exclude, g_procs, g_result, g_i, g_caller, ret, calls,
                   cache0, cacheVars, mainVars, exVars>>

\* g_lines 148-149 after a read
Store ==
    /\ g_pc = "store"
    /\ LET step == Collect(<<g_procs[g_i][1], [popen |-> g_lines]>>, git_info_cache, g_result)
       IN  IF IsErr(step)
           THEN /\ fault' = Raised("git_info", step)
                /\ g_pc' = "raised"
                /\ UNCHANGED <<git_info_cache, g_result, g_i>>
           ELSE /\ git_info_cache' = step.cache
                /\ g_result' = step.result
                /\ g_i' = g_i + 1
                /\ g_pc' = "gather"
                /\ UNCHANGED fault
    /\ UNCHANGED <<g_file_paths, g_exclude, g_procs, g_lines, g_caller, ret, calls, cache0,
                   file_to_author, gb_files, join_files, gb_index, join_index, pc,
                   argv1, group_bys, rows, emails, ewt_exclude, exVars>>

\* line 149 for a path that was served from the cache
ServeCached ==
    /\ g_pc = "gather"
    /\ g_i <= Len(g_procs)
    /\ ~IsPopen(g_procs[g_i][2])
    /\ g_result' = Collect(g_procs[g_i], git_info_cache, g_result).result
    /\ g_i' = g_i + 1
    /\ UNCHANGED <<g_pc, g_file_paths, g_exclude, g_procs, g_lines, g_caller, ret, calls,
                   cache0, cacheVars, mainVars, exVars>>

\* line 150, and g_lines 262-264 when author_name_email made the call
Return ==
    /\ g_pc = "gather"
    /\ g_i > Len(g_procs)
    /\ g_pc' = "idle"
    /\ IF IsNone(g_caller)
       THEN /\ ret' = [of |-> "git_info", value |-> g_result]
            /\ UNCHANGED file_to_author
       ELSE LET filled == RecordAuthors(g_result, 1, file_to_author)
            IN  /\ file_to_author' = filled
                /\ ret' = [of |-> "author_name_email",
                           value |-> DictGet(filled, g_caller.str)]
    /\ UNCHANGED <<g_file_paths, g_exclude, g_procs, g_result, g_lines, g_i, g_caller, calls,
                   cache0, git_info_cache, mainVars, exVars>>

NextGit ==
    \/ CallGitInfo
    \/ CallAuthorNameEmail
    \/ DispatchStep
    \/ StartGather
    \/ ReadLines
    \/ Store
    \/ ServeCached
    \/ Return

SpecGit == InitGit /\ [][NextGit]_vars

-----------------------------------------------------------------------------
(* Properties of the lineage enricher *)

\* enrich_with_joins has returned
Enriched ==
    \/ pc \in {"enriched", "found", "displayed", "reported"}
    \/ pc = "crashed" /\ fault.at \in {"events_without_topics", "find_in_index",
                                       "display_entries"}

\* position of a join name in join-processing order
JoinPos(name) ==
    CHOOSE j \in 1..Len(join_index.map) : join_index.map[j][2]["name"][1] = name

\* C1: after enrich_with_joins returns, a join's name is in G["joins"] exactly
\* when G's key is in the join's group_bys column; G["joins"] holds only names
\* of such joins, in join-processing order.
LineageExact ==
    Enriched =>
      \A g \in 1..Len(gb_index.map) :
        LET key == gb_index.map[g][1]
            joins == gb_index.map[g][2]["joins"]
        IN  /\ \A j \in 1..Len(join_index.map) :
                 LET J == join_index.map[j][2]
                 IN  (J["name"][1] \in ToSet(joins)) <=> (S(key) \in ToSet(J["group_bys"]))
            /\ \A a \in 1..Len(joins) :
                 \E j \in 1..Len(join_index.map) :
                    join_index.map[j][2]["name"][1] = joins[a]
            /\ \A a, b \in 1..Len(joins) :
                 a < b => JoinPos(joins[a]) <= JoinPos(joins[b])

\* a group-by referenced by two joins, and a join that does not reference
\* some indexed group-by
LineageExactWitness ==
    /\ pc = "enriched"
    /\ \E g \in 1..Len(gb_index.map) :
         Cardinality(ToSet(gb_index.map[g][2]["joins"])) >= 2
    /\ \E g \in 1..Len(gb_index.map), j \in 1..Len(join_index.map) :
         S(gb_index.map[g][1]) \notin ToSet(join_index.map[j][2]["group_bys"])

\* the entries built from the group-by documents embedded in the joins, in
\* join-processing order
InlineEntries ==
    LET docs == ConcatColumn(join_index.map, "_group_bys", 1)
    IN  [i \in 1..Len(docs) |-> build_entry(docs[i], GB_INDEX_SPEC, "group_bys")]
\* the group-by index as it was built from the files
FileIndexed == build_index(gb_files, "group_bys", GB_INDEX_SPEC).map
\* an entry without the columns the lineage step adds
Core(entry) == [c \in DOMAIN entry \ {"joins", "join_event_driver"} |-> entry[c]]
NameOf(entry) == entry["name"][1].str

OtherNamesKept(inline, files) ==
    \A g \in 1..Len(gb_index.map) :
       LET key == gb_index.map[g][1]
       IN  (\A i \in 1..Len(inline) : NameOf(inline[i]) # key)
             => /\ DictHas(files, key)
                /\ Core(gb_index.map[g][2]) = DictGet(files, key)

\* C2 as stated: every embedded document's entry is the one indexed under
\* its name after enrichment.
EveryInlineIndexed ==
    Enriched =>
      LET inline == InlineEntries
          files == FileIndexed
      IN  /\ \A i \in 1..Len(inline) :
                /\ DictHas(gb_index.map, NameOf(inline[i]))
                /\ Core(DictGet(gb_index.map, NameOf(inline[i]))) = inline[i]
          /\ OtherNamesKept(inline, files)

\* C2 (amended): after enrich_with_joins returns, the entry under an embedded
\* document's name is the Entry built from the last embedded document of that
\* name in join-processing order, whatever was indexed from a file under that
\* name; entries under other names are the file-indexed ones.
LastInlineIndexed ==
    Enriched =>
      LET inline == InlineEntries
          files == FileIndexed
      IN  /\ \A i \in 1..Len(inline) :
                (\A k \in (i + 1)..Len(inline) : NameOf(inline[k]) # NameOf(inline[i]))
                  => /\ DictHas(gb_index.map, NameOf(inline[i]))
                     /\ Core(DictGet(gb_index.map, NameOf(inline[i]))) = inline[i]
          /\ OtherNamesKept(inline, files)

\* an embedded document has replaced a different file-indexed entry of its name
LastInlineIndexedWitness ==
    /\ pc = "enriched"
    /\ LET inline == InlineEntries
           files == FileIndexed
       IN  \E i \in 1..Len(inline) :
              /\ DictHas(files, NameOf(inline[i]))
              /\ DictGet(files, NameOf(inline[i])) # inline[i]
              /\ Core(DictGet(gb_index.map, NameOf(inline[i]))) = inline[i]

\* every entry has a name, and is stored under it
Named(index) ==
    IsMap(index) =>
       \A i \in 1..Len(index.map) :
          /\ Len(index.map[i][2]["name"]) > 0
          /\ index.map[i][2]["name"][1] = S(index.map[i][1])

\* C9: unnamed configs are dropped without an exception by build_index and
\* enrich_with_joins, and every indexed entry has a non-empty name column
\* whose first value is its key.
UnnamedDropped ==
    /\ fault.at \notin {"build_index", "enrich_with_joins"}
    /\ Named(gb_index)
    /\ Named(join_index)

-----------------------------------------------------------------------------
(* Properties of the search and of the report *)

Matches(entry, target) ==
    \E column \in DOMAIN entry \cap FILTER_COLUMNS :
       \E k \in 1..Len(entry[column]) : StrIn(target, entry[column][k].str)

\* C3: find_in_index returns exactly the entries with the target as a
\* substring of a value of one of the whitelisted columns.
FindReturnsMatches ==
    pc = "found" =>
       /\ IsList(group_bys)
       /\ ToSet(group_bys.list) =
             {gb_index.map[g][2] : g \in {h \in 1..Len(gb_index.map) :
                                            Matches(gb_index.map[h][2], argv1.str)}}

ReportRan ==
    \/ pc = "reported"
    \/ pc = "crashed" /\ fault.at = "events_without_topics"

\* C5: events_without_topics emits one row for each group-by entry with an
\* event table and no event topic, and none for the others; the row carries
\* the name, the first event table, and the referencing joins or STANDALONE.
OneRowPerTopiclessEvent ==
    ReportRan =>
      /\ \A g \in 1..Len(gb_index.map) :
           LET entry == gb_index.map[g][2]
               mine == {r \in 1..Len(rows) : rows[r].name = gb_index.map[g][1]}
           IN  IF Len(entry["_event_tables"]) > 0 /\ Len(entry["_event_topics"]) = 0
               THEN /\ Cardinality(mine) = 1
                    /\ \A r \in mine :
                         /\ rows[r].table = entry["_event_tables"][1]
                         /\ rows[r].joins =
                               IF entry["joins"] = <<>> THEN "STANDALONE"
                               ELSE JoinStr(StrValues(entry["joins"]), ", ")
               ELSE mine = {}
      /\ \A r \in 1..Len(rows) : DictHas(gb_index.map, rows[r].name)

-----------------------------------------------------------------------------
(* Properties of extract_json *)

\* the first key of a path expression, without its array marker
LeadingKey(path) ==
    LET key0 == Split1(path, ".")[1]
    IN  IF EndsWith(key0, "[]") THEN SubSeq(key0, 1, Len(key0) - 2) ELSE key0

\* C4: extract_json raises nothing and returns a sequence, empty when the
\* leading key of the path is absent from the document.
ExtractTotal ==
    (ex_pc = "returned" /\ IsStr(ex_path)) =>
       /\ ~IsErr(ex_out)
       /\ IsList(ex_out)
       /\ (IsMap(ex_doc) /\ MapIndex(ex_doc.map, LeadingKey(ex_path.str), 1) = 0)
             => ex_out = L(<<>>)

-----------------------------------------------------------------------------
(* Properties of the authorship resolver *)

\* a read, or a collected result, finds every path of the call dispatched
ReadAfterAllDispatched ==
    (g_pc = "store" \/ Len(g_result) > 0) =>
       /\ Len(g_procs) = Len(g_file_paths)
       /\ \A i \in 1..Len(g_procs) : g_procs[i][1] = g_file_paths[i]

\* a step that writes the cache stores the first line of the output just read
CacheWrittenAfterRead ==
    git_info_cache' # git_info_cache =>
       /\ g_pc = "store"
       /\ g_lines = g_procs[g_i][2].popen
       /\ git_info_cache' = DictPut(git_info_cache, g_procs[g_i][1], g_lines[1])

\* C6: no output is read before every lookup of the call is dispatched, and
\* the cache is written only for a path whose output has been read to its end.
ScatterThenGather == []ReadAfterAllDispatched /\ [][CacheWrittenAfterRead]_vars

\* the first of two dispatched lookups is being collected
ScatterThenGatherWitness ==
    /\ g_pc = "store"
    /\ g_i = 1
    /\ Len(g_procs) = 2
    /\ IsPopen(g_procs[1][2]) /\ IsPopen(g_procs[2][2])

\* C7: a path cached when the call starts gets no lookup and keeps its
\* record; a lookup is dispatched only for uncached paths, and the first line
\* of its output is what is cached and returned.
CacheServed ==
    /\ \A i \in 1..Len(g_procs) :
          IsPopen(g_procs[i][2]) <=> ~DictHas(cache0, g_procs[i][1])
    /\ \A k \in 1..Len(cache0) :
          /\ DictHas(git_info_cache, cache0[k][1])
          /\ DictGet(git_info_cache, cache0[k][1]) = cache0[k][2]
    /\ \A r \in 1..Len(g_result) :
          LET file_path == g_result[r][1]
          IN  /\ g_result[r][2] = DictGet(git_info_cache, file_path)
              /\ g_result[r][2] =
                    IF DictHas(cache0, file_path) THEN DictGet(cache0, file_path)
                    ELSE PopenStdout(file_path, g_exclude)[1]

\* a finished batch with one path served from the cache and one looked up
CacheServedWitness ==
    /\ g_pc = "idle"
    /\ ret.of = "git_info"
    /\ Len(g_result) = 2
    /\ \E i, k \in 1..Len(g_procs) : IsPopen(g_procs[i][2]) /\ ~IsPopen(g_procs[k][2])

\* C8: a lookup without history raises nothing; the path gets a
\* no-attribution outcome (the empty name and email author_name_email also
\* gives for a missing file) and the other paths of the batch are returned
\* and cached.
NoHistoryHandled ==
    /\ fault = NoFault
    /\ ret.of = "author_name_email" => Len(ret.value) = 2
    /\ ret.of = "git_info" =>
          \A r \in 1..Len(ret.value) :
             /\ DictHas(git_info_cache, ret.value[r][1])
             /\ GitLog(ret.value[r][1], g_exclude) # <<>> => ret.value[r][2] # ""

\* C10: the record a call returns for a path is the one a lookup with the
\* call's own exclusion pattern gives.
RecordOfOwnPattern ==
    \A r \in 1..Len(g_result) :
       g_result[r][2] = PopenStdout(g_result[r][1], g_exclude)[1]

====
